---- MODULE Spec2Model ----
(***************************************************************************)
(* The ESP32 device-management hub of PR-Backend.  The repository holds    *)
(* two variants of the server: src/server.js (registry, sessions, actuator *)
(* commands; the close handler deletes the registry entry) and             *)
(* src/unnamed/part_000 (registry, heartbeat re-broadcast with a database  *)
(* insert; the close handler marks the entry offline).  The variable       *)
(* `variant` says which of the two programs is running.                    *)
(*                                                                         *)
(* Node runs every handler to completion on one thread, so each handler is *)
(* one action; the only handler that yields is the heartbeat handler of    *)
(* part_000, which suspends at `await pool.query` and resumes later.       *)
(*                                                                         *)
(* The specifications share the actions.  Spec is the registry: two device *)
(* connections and the REST routes that write `devices` or send to a       *)
(* device.  SpecSessions is server.js with its session routes, which read  *)
(* the registry and write only `sessions`; SpecClock lets the clock        *)
(* advance under the session routes.  SpecDash adds the dashboard          *)
(* connections, which only receive.  SpecFleet is two device connections   *)
(* and a dashboard, without the REST routes.  `clients` is the set of      *)
(* sockets that take part in a run.                                        *)
(***************************************************************************)
EXTENDS Integers, Sequences, FiniteSets, TLC

VARIABLES
    variant,     \* "server" (src/server.js) or "part000" (src/unnamed/part_000)
    clients,     \* the WebSocket clients that may connect in this run
    alive,       \* FALSE once an uncaught exception has ended the process
    now,         \* the wall clock read by new Date() / Date.now()
    ready,       \* readyState of every WebSocket: NEW (not yet connected), OPEN, CLOSING, CLOSED
    connId,      \* the closure variable `deviceId` of every device connection
    devices,     \* the Map `devices`, in insertion order: a sequence of [k, v]
    sessions,    \* the Map `sessions` (server.js), in insertion order
    webClients,  \* the Set `webClients`
    pending,     \* part_000: heartbeat handlers suspended at `await pool.query`, per connection
    firstMsg,    \* per dashboard: the type of the first message written to it
    closedSince, \* deviceIds whose connection closed and that no register has named since
    out          \* what the last handler wrote: HTTP response, WebSocket messages, broadcasts

vars == <<variant, clients, alive, now, ready, connId, devices, sessions, webClients,
          pending, firstMsg, closedSince, out>>

\* ------------------------------------------------------------------ bounds

MaxTime == 1          \* the clock stops advancing here
MaxSessions == 1      \* sessions created in one run
MaxPending == 1       \* heartbeat handlers suspended at the same time

\* ------------------------------------------------------------------ values

Nil == "nil"                       \* JavaScript null / undefined / absent
Variants == {"server", "part000"}
DeviceIds == {"d1", "d2"}          \* device ids a client may name
DevConns == {"c1", "c2"}           \* WebSocket objects accepted on /ws/esp32
Dashboards == {"w1", "w2"}         \* WebSocket objects accepted on /ws/devices
Sockets == DevConns \cup Dashboards
AcceptOrder == <<"c1", "c2", "w1", "w2">>  \* the names are given in order of acceptance
OPEN == "OPEN"

DefaultSamplingRate == 1000        \* data.samplingRate || 1000
SamplingRates == {500}             \* a samplingRate a message or a body may carry

\* Request bodies of the REST register and configure routes: JSON objects,
\* as functions from the keys present to their values.
EmptyBody == [f \in {} |-> Nil]
Bodies ==
    { EmptyBody,
      [samplingRate |-> 500],
      [deviceId |-> "d2", status |-> "online", ws |-> Nil] }

\* ------------------------------------------------------------------ JavaScript objects and Maps

\* obj.f, undefined when the property is absent.
Fld(obj, f) == IF f \in DOMAIN obj THEN obj[f] ELSE Nil

\* Object.assign(target, source), and the spread {...target, ...source}.
ObjectAssign(target, source) ==
    [f \in DOMAIN target \cup DOMAIN source |->
        IF f \in DOMAIN source THEN source[f] ELSE target[f]]

MapHas(m, k) == \E i \in 1..Len(m) : m[i].k = k

MapGet(m, k) == m[CHOOSE i \in 1..Len(m) : m[i].k = k].v

\* Map.prototype.set: an existing key keeps its place and gets the new value.
MapSet(m, k, v) ==
    IF MapHas(m, k)
    THEN [i \in 1..Len(m) |-> IF m[i].k = k THEN [k |-> k, v |-> v] ELSE m[i]]
    ELSE Append(m, [k |-> k, v |-> v])

MapDelete(m, k) == SelectSeq(m, LAMBDA e : e.k # k)

MapKeys(m) == { m[i].k : i \in 1..Len(m) }

\* Array.from(m.values())
MapValues(m) == [i \in 1..Len(m) |-> m[i].v]

\* How many entries the Map holds under key k.
MapCount(m, k) == Cardinality({ i \in 1..Len(m) : m[i].k = k })

\* ------------------------------------------------------------------ sockets and output

\* A faulty WsOpen: the handle is tested, its readyState is not.
WsOpenNoReadyState(device) == Fld(device, "ws") # Nil

\* device.ws && device.ws.readyState === WebSocket.OPEN
WsOpen(device) ==
    /\ Fld(device, "ws") # Nil
    /\ ready[Fld(device, "ws")] = OPEN

\* Whether JSON.stringify succeeds on a value that holds a WebSocket object
\* depends on the ws and Node versions (the object graph may be circular):
\* both outcomes are allowed wherever the code serialises one.
HoldsSocket(obj) == Fld(obj, "ws") \in Sockets

Msg(to, type, body) == ObjectAssign([to |-> to, type |-> type], body)

\* The members of a set in the order of AcceptOrder (a Set iterates in
\* insertion order, and sockets are inserted when accepted).
InOrder(S) == SelectSeq(AcceptOrder, LAMBDA s : s \in S)

\* The sockets broadcastToWebClients(data) writes to.
BroadcastTargets == { w \in webClients : ready[w] = OPEN }

\* broadcastToWebClients(data): one message per OPEN member of webClients.
Broadcast(type, body) ==
    LET ts == InOrder(BroadcastTargets)
    IN  [i \in 1..Len(ts) |-> Msg(ts[i], type, body)]

\* firstMsg after the messages `msgs` have been written.
NoteFirst(msgs) ==
    [w \in Dashboards |->
        IF firstMsg[w] # Nil THEN firstMsg[w]
        ELSE IF \E i \in 1..Len(msgs) : msgs[i].to = w
             THEN msgs[CHOOSE i \in 1..Len(msgs) :
                        /\ msgs[i].to = w
                        /\ \A j \in 1..(i - 1) : msgs[j].to # w].type
             ELSE Nil]

\* Handlers suspended now.
RECURSIVE SumPending(_)
SumPending(S) ==
    IF S = {} THEN 0
    ELSE LET c == CHOOSE x \in S : TRUE IN pending[c] + SumPending(S \ {c})

\* Sockets of one kind are named in the order they are accepted.
NextToAccept(s) ==
    /\ s \in clients
    /\ ready[s] = "NEW"
    /\ \A i, j \in 1..Len(AcceptOrder) :
          (AcceptOrder[j] = s /\ i < j /\ (AcceptOrder[i] \in DevConns <=> s \in DevConns))
              => ready[AcceptOrder[i]] # "NEW"

\* code: the HTTP status of the response (0: the handler answers no request),
\* res: the response body, msgs: the WebSocket messages written, in order,
\* bcast: the types of the events broadcastToWebClients sent out (to whoever
\* is attached).
Out(code, res, msgs, bcast) ==
    [code |-> code, res |-> res, msgs |-> msgs, bcast |-> bcast]

NoRes == [f \in {} |-> Nil]

Quiet == Out(0, NoRes, <<>>, <<>>)

\* ------------------------------------------------------------------ initial states

InitWith(vs, cs) ==
    /\ variant \in vs
    /\ clients = cs
    /\ alive = TRUE
    /\ now = 0
    /\ ready = [s \in Sockets |-> "NEW"]
    /\ connId = [c \in DevConns |-> Nil]
    /\ devices = <<>>
    /\ sessions = <<>>
    /\ webClients = {}
    /\ pending = [c \in DevConns |-> 0]
    /\ firstMsg = [w \in Dashboards |-> Nil]
    /\ closedSince = {}
    /\ out = Quiet

Init == InitWith(Variants, {"c1", "c2"})

InitSessions == InitWith({"server"}, {"c1", "c2"})

InitClock == InitWith({"server"}, {"c1"})

InitDash == InitWith(Variants, {"c1", "w1", "w2"})

InitFleet == InitWith(Variants, {"c1", "c2", "w1"})

\* new Date() advances between handlers.
Tick ==
    /\ alive
    /\ now < MaxTime
    /\ now' = now + 1
    /\ out' = Quiet
    /\ UNCHANGED <<variant, clients, alive, ready, connId, devices, sessions, webClients,
                   pending, firstMsg, closedSince>>

\* ------------------------------------------------------------------ device connections

\* wss.on('connection') for /ws/esp32: the handlers are installed, deviceId = null.
DeviceConnect(c) ==
    /\ alive
    /\ NextToAccept(c)
    /\ ready' = [ready EXCEPT ![c] = OPEN]
    /\ connId' = [connId EXCEPT ![c] = Nil]
    /\ out' = Quiet
    /\ UNCHANGED <<variant, clients, alive, now, devices, sessions, webClients,
                   pending, firstMsg, closedSince>>

\* The peer or the network ends the connection: readyState leaves OPEN; the
\* 'close' event has not been emitted yet.
SocketClosing(s) ==
    /\ alive
    /\ ready[s] = OPEN
    /\ ready' = [ready EXCEPT ![s] = "CLOSING"]
    /\ out' = Quiet
    /\ UNCHANGED <<variant, clients, alive, now, connId, devices, sessions, webClients,
                   pending, firstMsg, closedSince>>

\* data.deviceId || uuidv4(): a generated id is one nobody uses or names.
FreshIds ==
    { d \in DeviceIds :
        /\ ~MapHas(devices, d)
        /\ \A c \in DevConns : connId[c] # d
        /\ \A i \in 1..Len(sessions) :
              "nodes" \in DOMAIN sessions[i].v =>
                  \A j \in 1..Len(sessions[i].v.nodes) : sessions[i].v.nodes[j] # d }

\* The deviceInfo object of a register message, without the socket.  rate is
\* data.samplingRate (0: absent).
DeviceInfo(d, rate) ==
    [deviceId |-> d, samplingRate |-> IF rate # 0 THEN rate ELSE DefaultSamplingRate,
     lastSeen |-> now, status |-> "online"]

\* What the register branch stores under deviceId for a message received on c.
RegisterEntry(c, d, rate) == ObjectAssign(DeviceInfo(d, rate), [ws |-> c])

\* What it broadcasts as `device`: server.js broadcasts deviceInfo, which has
\* no socket; in part_000 deviceInfo is the stored object, socket included.
RegisterBroadcastDevice(c, d, rate) ==
    IF variant = "server" THEN DeviceInfo(d, rate) ELSE RegisterEntry(c, d, rate)

\* A faulty RegisterStore: an id already in the registry keeps its entry.
RegisterStoreKeepFirst(m, c, d, rate) ==
    IF MapHas(m, d) THEN m ELSE MapSet(m, d, RegisterEntry(c, d, rate))

\* A faulty RegisterStore: every register is stored under the same key.
RegisterStoreSharedKey(m, c, d, rate) == MapSet(m, "d1", RegisterEntry(c, d, rate))

\* devices.set(deviceId, ...) of the register branch.
RegisterStore(m, c, d, rate) == MapSet(m, d, RegisterEntry(c, d, rate))

\* ws.on('message') with data.type === 'register' on connection c.  id and
\* rate are the message's deviceId and samplingRate (Nil, 0: absent); throws
\* is the outcome of JSON.stringify in broadcastToWebClients, which the
\* handler's try/catch swallows.
Register(c, id, rate, throws) ==
    /\ alive
    /\ ready[c] = OPEN
    /\ \E d \in (IF id # Nil THEN {id} ELSE FreshIds) :
          LET ack == <<Msg(c, "registration_ack", [deviceId |-> d, status |-> "success"])>>
              bc  == IF throws THEN <<>>
                     ELSE Broadcast("device_registered",
                                    [device |-> RegisterBroadcastDevice(c, d, rate)])
          IN  /\ throws => HoldsSocket(RegisterBroadcastDevice(c, d, rate))
              /\ connId' = [connId EXCEPT ![c] = d]
              /\ devices' = RegisterStore(devices, c, d, rate)
              /\ closedSince' = closedSince \ {d}
              /\ firstMsg' = NoteFirst(ack \o bc)
              /\ out' = Out(0, NoRes, ack \o bc,
                            IF throws THEN <<>> ELSE <<"device_registered">>)
    /\ UNCHANGED <<variant, clients, alive, now, ready, sessions, webClients, pending>>

\* The registry after the heartbeat branch has touched deviceId's entry:
\* server.js stamps lastSeen, part_000 also forces status online.
HeartbeatTouch(m, d) ==
    LET device == MapGet(m, d)
    IN  IF variant = "server"
        THEN MapSet(m, d, ObjectAssign(device, [lastSeen |-> now]))
        ELSE MapSet(m, d, ObjectAssign(device, [lastSeen |-> now, status |-> "online"]))

\* Whether the heartbeat branch goes past its guards on connection c.
HeartbeatKnown(c) == connId[c] # Nil /\ MapHas(devices, connId[c])

\* A faulty HeartbeatRegistry: a heartbeat for an id the registry does not
\* hold creates the entry.
HeartbeatRegistryUpsert(c) ==
    IF connId[c] = Nil THEN devices
    ELSE IF MapHas(devices, connId[c]) THEN HeartbeatTouch(devices, connId[c])
    ELSE MapSet(devices, connId[c],
                [deviceId |-> connId[c], lastSeen |-> now, status |-> "online"])

\* The registry after a heartbeat on connection c.
HeartbeatRegistry(c) ==
    IF HeartbeatKnown(c) THEN HeartbeatTouch(devices, connId[c]) ELSE devices

HeartbeatMsgs(d) == Broadcast("heartbeat", [deviceId |-> d])

\* ws.on('message') with data.type === 'heartbeat' on connection c.
\* sensors is data.sensors: Nil (absent, so data.sensors.find throws inside
\* the try), "none" (no pzem004t sensor) or "pzem" (one, with data).
Heartbeat(c, sensors) ==
    /\ alive
    /\ ready[c] = OPEN
    /\ devices' = HeartbeatRegistry(c)
    /\ IF ~HeartbeatKnown(c) \/ variant = "server" \/ sensors = Nil
       THEN /\ out' = Quiet
            /\ UNCHANGED <<pending, firstMsg>>
       ELSE IF sensors = "pzem"
       THEN /\ SumPending(DevConns) < MaxPending
            /\ pending' = [pending EXCEPT ![c] = @ + 1]
            /\ out' = Quiet
            /\ UNCHANGED firstMsg
       ELSE /\ out' = Out(0, NoRes, HeartbeatMsgs(connId[c]), <<"heartbeat">>)
            /\ firstMsg' = NoteFirst(HeartbeatMsgs(connId[c]))
            /\ UNCHANGED pending
    /\ UNCHANGED <<variant, clients, alive, now, ready, connId, sessions, webClients,
                   closedSince>>

\* part_000: pool.query settles (resolved or rejected, the catch only logs)
\* and the suspended heartbeat handler of c runs on: it broadcasts with the
\* value the closure variable deviceId has now.
HeartbeatResume(c) ==
    /\ alive
    /\ pending[c] > 0
    /\ pending' = [pending EXCEPT ![c] = @ - 1]
    /\ out' = Out(0, NoRes, HeartbeatMsgs(connId[c]), <<"heartbeat">>)
    /\ firstMsg' = NoteFirst(HeartbeatMsgs(connId[c]))
    /\ UNCHANGED <<variant, clients, alive, now, ready, connId, devices, sessions,
                   webClients, closedSince>>

\* The message kinds that only log (or that no branch matches).
OtherKinds == {"sensor_frame", "ai_log", "config_update_ack", "session_start_ack"}

\* ws.on('message') with any other data.type: server.js logs sensor_frame
\* and ai_log; part_000 logs the acks, and its ai_log branch calls the
\* undefined handleAILog, whose ReferenceError the try/catch swallows.
DeviceOther(c, kind) ==
    /\ alive
    /\ ready[c] = OPEN
    /\ out' = Quiet
    /\ UNCHANGED <<variant, clients, alive, now, ready, connId, devices, sessions,
                   webClients, pending, firstMsg, closedSince>>

\* The registry after the close handler of a connection whose deviceId is d.
CloseRegistry(m, d) ==
    IF variant = "server"
    THEN MapDelete(m, d)
    ELSE IF MapHas(m, d)
         THEN MapSet(m, d, ObjectAssign(MapGet(m, d), [status |-> "offline"]))
         ELSE m

\* Whether the close handler broadcasts device_disconnected for deviceId d.
CloseBroadcasts(d) == variant = "server" \/ MapHas(devices, d)

\* ws.on('close') of device connection c.
DeviceClose(c) ==
    /\ alive
    /\ ready[c] = "CLOSING"
    /\ ready' = [ready EXCEPT ![c] = "CLOSED"]
    /\ IF connId[c] = Nil
       THEN /\ out' = Quiet
            /\ UNCHANGED <<devices, firstMsg, closedSince>>
       ELSE LET bc == IF CloseBroadcasts(connId[c])
                      THEN Broadcast("device_disconnected", [deviceId |-> connId[c]])
                      ELSE <<>>
            IN  /\ devices' = CloseRegistry(devices, connId[c])
                /\ closedSince' = closedSince \cup {connId[c]}
                /\ firstMsg' = NoteFirst(bc)
                /\ out' = Out(0, NoRes, bc,
                              IF CloseBroadcasts(connId[c])
                              THEN <<"device_disconnected">> ELSE <<>>)
    /\ UNCHANGED <<variant, clients, alive, now, connId, sessions, webClients, pending>>

\* ------------------------------------------------------------------ dashboards

\* The devices_list payload: server.js sends the stored objects themselves,
\* part_000 a projection without the socket.
DevicesListPayload ==
    IF variant = "server"
    THEN MapValues(devices)
    ELSE [i \in 1..Len(devices) |->
            [f \in {"deviceId", "status", "lastSeen"} |-> Fld(devices[i].v, f)]]

\* A faulty DashGreeting: the new dashboard is sent nothing on connect.
DashGreetingNone(w) == <<>>

\* The first thing the connection handler writes to a new dashboard.
DashGreeting(w) == <<Msg(w, "devices_list", [devices |-> DevicesListPayload])>>

\* wss.on('connection') for /ws/devices.  The socket joins webClients and is
\* sent the device list.  throws: JSON.stringify fails on a stored object
\* that holds a socket; nothing catches it in this handler, so the process
\* ends with an uncaught exception.
DashConnect(w, throws) ==
    /\ alive
    /\ NextToAccept(w)
    /\ throws => \E i \in 1..Len(DevicesListPayload) : HoldsSocket(DevicesListPayload[i])
    /\ ready' = [ready EXCEPT ![w] = OPEN]
    /\ webClients' = webClients \cup {w}
    /\ IF throws
       THEN /\ alive' = FALSE
            /\ out' = Quiet
            /\ UNCHANGED firstMsg
       ELSE /\ out' = Out(0, NoRes, DashGreeting(w), <<>>)
            /\ firstMsg' = NoteFirst(DashGreeting(w))
            /\ UNCHANGED alive
    /\ UNCHANGED <<variant, clients, now, connId, devices, sessions, pending, closedSince>>

\* The message kinds a dashboard may send to address a device.
DashKinds == {"relay", "binary_cmd"}

\* A message of kind `kind` addressed to device `target` arrives on
\* dashboard connection w.  The /ws/devices branch installs no 'message'
\* listener in either variant, so the message is dropped.
DashMessage(w, kind, target) ==
    /\ alive
    /\ w \in Dashboards
    /\ ready[w] = OPEN
    /\ out' = Quiet
    /\ UNCHANGED <<variant, clients, alive, now, ready, connId, devices, sessions,
                   webClients, pending, firstMsg, closedSince>>

\* The socket of dashboard connection w emits 'error' (a frame the receiver
\* rejects).  The /ws/devices branch installs a 'close' listener only, so the
\* event has no listener: the emitter throws and the process ends before
\* any 'close' event is delivered.
DashError(w) ==
    /\ alive
    /\ w \in Dashboards
    /\ ready[w] = OPEN
    /\ ready' = [ready EXCEPT ![w] = "CLOSING"]
    /\ alive' = FALSE
    /\ out' = Quiet
    /\ UNCHANGED <<variant, clients, now, connId, devices, sessions, webClients,
                   pending, firstMsg, closedSince>>

\* ws.on('close') of dashboard connection w.
DashClose(w) ==
    /\ alive
    /\ w \in Dashboards
    /\ ready[w] = "CLOSING"
    /\ ready' = [ready EXCEPT ![w] = "CLOSED"]
    /\ webClients' = webClients \ {w}
    /\ out' = Quiet
    /\ UNCHANGED <<variant, clients, alive, now, connId, devices, sessions, pending,
                   firstMsg, closedSince>>

\* ------------------------------------------------------------------ REST: devices

\* What GET /api/devices answers: a projection of every stored object (the
\* fields both variants report that the model keeps).
ListDevices ==
    [i \in 1..Len(devices) |->
        [f \in {"deviceId", "status", "lastSeen"} |-> Fld(devices[i].v, f)]]

\* The object POST /api/devices/:deviceId/register leaves under deviceId.
RestRegisterEntry(d, body) ==
    IF MapHas(devices, d)
    THEN ObjectAssign(MapGet(devices, d), body)
    ELSE ObjectAssign(body, [deviceId |-> d, lastSeen |-> now, status |-> "offline"])

\* app.post('/api/devices/:deviceId/register') of server.js.
RestRegister(d, body) ==
    /\ alive
    /\ variant = "server"
    /\ devices' = MapSet(devices, d, RestRegisterEntry(d, body))
    /\ out' = Out(200, [success |-> TRUE, deviceId |-> d], <<>>, <<>>)
    /\ UNCHANGED <<variant, clients, alive, now, ready, connId, sessions, webClients,
                   pending, firstMsg, closedSince>>

\* The stored object after PUT /api/devices/:deviceId/configure: server.js
\* copies the configuration fields it knows
\* (config.samplingRate || device.samplingRate), part_000 assigns the body.
ConfigureEntry(device, body) ==
    IF variant = "server"
    THEN IF "samplingRate" \in DOMAIN body
         THEN ObjectAssign(device, [samplingRate |-> body.samplingRate])
         ELSE device
    ELSE ObjectAssign(device, body)

\* The config of the config_update message: server.js sends the stored
\* fields, part_000 the request body.
ConfigPayload(device, body) ==
    IF variant = "server"
    THEN [f \in {"samplingRate"} \cap DOMAIN device |-> device[f]]
    ELSE body

\* Whether configure pushes: the socket of the updated stored object is OPEN.
ConfigurePushes(device) == WsOpen(device)

ConfigureMsgs(device, body) ==
    IF ConfigurePushes(device)
    THEN <<Msg(device.ws, "config_update", [config |-> ConfigPayload(device, body)])>>
    ELSE <<>>

\* app.put('/api/devices/:deviceId/configure').  throws: part_000 answers
\* with the stored object itself, and JSON.stringify fails on its socket;
\* Express turns the exception into a 500 after the update and the push.
Configure(d, body, throws) ==
    /\ alive
    /\ IF ~MapHas(devices, d)
       THEN /\ ~throws
            /\ out' = Out(404, [error |-> "Device not found"], <<>>, <<>>)
            /\ UNCHANGED devices
       ELSE LET device == ConfigureEntry(MapGet(devices, d), body)
            IN  /\ throws => (variant = "part000" /\ HoldsSocket(device))
                /\ devices' = MapSet(devices, d, device)
                /\ out' = Out(IF throws THEN 500 ELSE 200,
                              IF throws THEN NoRes ELSE [success |-> TRUE],
                              ConfigureMsgs(device, body), <<>>)
    /\ UNCHANGED <<variant, clients, alive, now, ready, connId, sessions, webClients,
                   pending, firstMsg, closedSince>>

\* What GET /health answers besides status and timestamp: the sizes of the
\* collections; part_000 reports no session count.
Health ==
    IF variant = "server"
    THEN [connectedDevices |-> Len(devices), activeSessions |-> Len(sessions),
          webClients |-> Cardinality(webClients)]
    ELSE [connectedDevices |-> Len(devices), webClients |-> Cardinality(webClients)]

\* ------------------------------------------------------------------ REST: actuator command (server.js)

CommandId == "uuid"                \* the commandId uuidv4() generates for the request

\* The status POST /api/nodes/:nodeId/actuators/:actuatorId/command answers.
CommandOutcome(d) ==
    IF ~MapHas(devices, d) THEN 404
    ELSE IF WsOpen(MapGet(devices, d)) THEN 200
    ELSE 503

ActuatorCommand(d) ==
    /\ alive
    /\ variant = "server"
    /\ LET code == CommandOutcome(d)
       IN  out' = Out(code,
                      IF code = 200
                      THEN [success |-> TRUE, commandId |-> CommandId, status |-> "sent"]
                      ELSE IF code = 404 THEN [error |-> "Device not found"]
                      ELSE [error |-> "Device offline"],
                      IF code = 200
                      THEN <<Msg(MapGet(devices, d).ws, "actuator_command",
                                 [commandId |-> CommandId])>>
                      ELSE <<>>,
                      <<>>)
    /\ UNCHANGED <<variant, clients, alive, now, ready, connId, devices, sessions,
                   webClients, pending, firstMsg, closedSince>>

\* ------------------------------------------------------------------ REST: sessions (server.js)

SessionIds == 1..MaxSessions       \* the ids uuidv4() hands out, in order
NodeLists == { <<"d1">>, <<"d1", "d2">> }
Sensors == "s1"
Duration == "1h"

\* Request bodies of POST /api/sessions: with a node list, or without `nodes`.
SessionBodies == { [nodes |-> n] : n \in NodeLists } \cup { EmptyBody }

\* uuidv4() for the session token: unlike every other value.
TokenOf(sid) == [token |-> sid]

\* Whether a forEach over the listed nodes writes to node d.
NodeReachable(d) == MapHas(devices, d) /\ WsOpen(MapGet(devices, d))

\* The messages a forEach over `nodes` writes: one per listed node that is
\* in the registry with an OPEN socket, in list order.
RECURSIVE NotifyNodes(_, _, _)
NotifyNodes(nodes, type, body) ==
    IF nodes = <<>> THEN <<>>
    ELSE LET d == Head(nodes)
             rest == NotifyNodes(Tail(nodes), type, body)
         IN  IF NodeReachable(d)
             THEN <<Msg(MapGet(devices, d).ws, type, body)>> \o rest
             ELSE rest

\* The session object POST /api/sessions stores; a body without `nodes`
\* leaves the property undefined.  Every request carries the same sensors
\* and duration.
NewSession(sid, body) ==
    ObjectAssign(body,
        [sessionId |-> sid, sensors |-> Sensors, duration |-> Duration,
         startTime |-> now, status |-> "active", sessionToken |-> TokenOf(sid)])

\* app.post('/api/sessions').  Without `nodes` the forEach throws after the
\* session is stored and Express answers 500.
CreateSession(body) ==
    /\ alive
    /\ variant = "server"
    /\ Len(sessions) < MaxSessions
    /\ LET sid == Len(sessions) + 1
           session == NewSession(sid, body)
       IN  /\ sessions' = MapSet(sessions, sid, session)
           /\ IF "nodes" \notin DOMAIN body
              THEN out' = Out(500, NoRes, <<>>, <<>>)
              ELSE out' = Out(200, [success |-> TRUE, session |-> session],
                              NotifyNodes(body.nodes, "session_start",
                                  [sessionId |-> sid, sessionToken |-> session.sessionToken,
                                   sensors |-> Sensors, duration |-> Duration]),
                              <<>>)
    /\ UNCHANGED <<variant, clients, alive, now, ready, connId, devices, webClients,
                   pending, firstMsg, closedSince>>

\* What GET /api/sessions/:sessionId answers: the status and the body.
GetSession(sid) ==
    IF ~MapHas(sessions, sid)
    THEN [code |-> 404, res |-> [error |-> "Session not found"]]
    ELSE [code |-> 200, res |-> [session |-> MapGet(sessions, sid)]]

\* The session object after the start route has updated it.
StartedSession(session) == ObjectAssign(session, [status |-> "active", startTime |-> now])

\* app.post('/api/sessions/:sessionId/start')
StartSession(sid) ==
    /\ alive
    /\ variant = "server"
    /\ IF ~MapHas(sessions, sid)
       THEN /\ out' = Out(404, [error |-> "Session not found"], <<>>, <<>>)
            /\ UNCHANGED sessions
       ELSE /\ sessions' = MapSet(sessions, sid, StartedSession(MapGet(sessions, sid)))
            /\ out' = Out(200, [success |-> TRUE,
                                session |-> StartedSession(MapGet(sessions, sid))],
                          <<>>, <<>>)
    /\ UNCHANGED <<variant, clients, alive, now, ready, connId, devices, webClients,
                   pending, firstMsg, closedSince>>

\* The session object after the stop route has updated it.
StoppedSession(session) == ObjectAssign(session, [status |-> "stopped", endTime |-> now])

\* app.post('/api/sessions/:sessionId/stop').  A session stored without
\* `nodes` makes session.nodes.forEach throw after the update: 500.
StopSession(sid) ==
    /\ alive
    /\ variant = "server"
    /\ IF ~MapHas(sessions, sid)
       THEN /\ out' = Out(404, [error |-> "Session not found"], <<>>, <<>>)
            /\ UNCHANGED sessions
       ELSE LET session == StoppedSession(MapGet(sessions, sid))
            IN  /\ sessions' = MapSet(sessions, sid, session)
                /\ IF "nodes" \notin DOMAIN session
                   THEN out' = Out(500, NoRes, <<>>, <<>>)
                   ELSE out' = Out(200, [success |-> TRUE, session |-> session],
                                   NotifyNodes(session.nodes, "session_stop",
                                               [sessionId |-> sid]),
                                   <<>>)
    /\ UNCHANGED <<variant, clients, alive, now, ready, connId, devices, webClients,
                   pending, firstMsg, closedSince>>

\* ------------------------------------------------------------------ specifications

\* Device connections.
DeviceNext ==
    \/ \E c \in DevConns : DeviceConnect(c)
    \/ \E s \in Sockets : SocketClosing(s)
    \/ \E c \in DevConns, id \in DeviceIds \cup {Nil}, rate \in SamplingRates \cup {0},
          throws \in BOOLEAN : Register(c, id, rate, throws)
    \/ \E c \in DevConns, sensors \in {Nil, "none", "pzem"} : Heartbeat(c, sensors)
    \/ \E c \in DevConns, kind \in OtherKinds : DeviceOther(c, kind)
    \/ \E c \in DevConns : DeviceClose(c)

\* part_000: a heartbeat handler suspended at `await pool.query` resumes.
AsyncNext == \E c \in DevConns : HeartbeatResume(c)

\* The REST routes that write the registry or send to a device.
RegistryNext ==
    \/ \E d \in DeviceIds, body \in Bodies : RestRegister(d, body)
    \/ \E d \in DeviceIds, body \in Bodies, throws \in BOOLEAN : Configure(d, body, throws)
    \/ \E d \in DeviceIds : ActuatorCommand(d)

SessionNext ==
    \/ \E body \in SessionBodies : CreateSession(body)
    \/ \E sid \in SessionIds : StartSession(sid)
    \/ \E sid \in SessionIds : StopSession(sid)

DashNext ==
    \/ \E w \in Dashboards, throws \in BOOLEAN : DashConnect(w, throws)
    \/ \E w \in Dashboards, kind \in DashKinds, target \in DeviceIds :
          DashMessage(w, kind, target)
    \/ \E w \in Dashboards : DashError(w)
    \/ \E w \in Dashboards : DashClose(w)

Next == DeviceNext \/ AsyncNext \/ RegistryNext

NextSessions == DeviceNext \/ SessionNext

NextClock == Tick \/ DeviceNext \/ SessionNext

NextDash == DeviceNext \/ AsyncNext \/ RegistryNext \/ DashNext

NextFleet == DeviceNext \/ AsyncNext \/ DashNext

Spec == Init /\ [][Next]_vars

SpecSessions == InitSessions /\ [][NextSessions]_vars

SpecClock == InitClock /\ [][NextClock]_vars

SpecDash == InitDash /\ [][NextDash]_vars

SpecFleet == InitFleet /\ [][NextFleet]_vars

\* ------------------------------------------------------------------ properties

\* Device d has an open connection: some OPEN device connection is
\* registered as d.
HasOpenConnection(d) == \E c \in DevConns : ready[c] = OPEN /\ connId[c] = d

\* The sockets the last handler wrote to.
Recipients == { out.msgs[i].to : i \in 1..Len(out.msgs) }

\* C1: a register message naming deviceId id leaves exactly one registry
\* entry under id (and no id with two entries), and that entry carries the
\* connection handle and the metadata of this register, the most recent one:
\* whatever was registered before, on this connection or on another.  (A
\* register step on c first writes registration_ack to c, and leaves c's
\* deviceId at id.)
C1_RegisterSupersedes ==
    [][\A c \in DevConns, id \in DeviceIds :
          (/\ Len(out'.msgs) > 0
           /\ out'.msgs[1].type = "registration_ack"
           /\ out'.msgs[1].to = c
           /\ connId'[c] = id) =>
              \A rate \in SamplingRates \cup {0}, throws \in BOOLEAN :
                  Register(c, id, rate, throws) =>
                      /\ \A k \in MapKeys(devices') : MapCount(devices', k) = 1
                      /\ MapCount(devices', id) = 1
                      /\ Fld(MapGet(devices', id), "ws") = c
                      /\ Fld(MapGet(devices', id), "deviceId") = id
                      /\ Fld(MapGet(devices', id), "status") = "online"
                      /\ Fld(MapGet(devices', id), "lastSeen") = now
                      /\ Fld(MapGet(devices', id), "samplingRate") =
                            (IF rate = 0 THEN DefaultSamplingRate ELSE rate)]_vars

\* C1 witness: both connections have registered d1, c2 last and with its
\* own samplingRate; the one entry holds c2 and that rate.
C1_Witness ==
    /\ connId["c1"] = "d1"
    /\ connId["c2"] = "d1"
    /\ Len(out.msgs) >= 1
    /\ out.msgs[1].type = "registration_ack"
    /\ out.msgs[1].to = "c2"
    /\ Len(devices) = 1
    /\ MapGet(devices, "d1").ws = "c2"
    /\ MapGet(devices, "d1").samplingRate = 500

\* C2: when the connection of a registered device closes, the registry
\* still holds an entry for its deviceId, the device list reports it
\* offline, and the handle in the entry is cleared.
C2_CloseMarksOffline ==
    [][\A c \in DevConns :
          (DeviceClose(c) /\ connId[c] # Nil) =>
              /\ MapHas(devices', connId[c])
              /\ \E i \in 1..Len(ListDevices') :
                    /\ ListDevices'[i].deviceId = connId[c]
                    /\ ListDevices'[i].status = "offline"
              /\ Fld(MapGet(devices', connId[c]), "ws") = Nil]_vars

\* The directed messages every session route would write now go to OPEN
\* sockets only.
NotifyOpenOnly ==
    \A nodes \in NodeLists :
        LET msgs == NotifyNodes(nodes, "session_start", NoRes)
        IN  \A i \in 1..Len(msgs) : ready[msgs[i].to] = OPEN

\* C3: in every reachable state, the messages the last handler wrote to
\* device connections went to connections that are OPEN (no handler that
\* writes to a device changes a readyState), the session routes would
\* write to OPEN connections only, and an actuator command (server.js)
\* addressed to a deviceId whose connection has closed, with no register
\* of that id since, would not be answered as sent.
C3_NoSendAfterClose ==
    /\ \A i \in 1..Len(out.msgs) :
          out.msgs[i].to \in DevConns => ready[out.msgs[i].to] = OPEN
    /\ NotifyOpenOnly
    /\ variant = "server" => \A d \in closedSince : CommandOutcome(d) # 200

\* C3 witness: part_000 keeps the closed socket c1 in d1's entry, and a
\* configure request for d1 has been stored without a push.
C3_Witness ==
    /\ variant = "part000"
    /\ "d1" \in closedSince
    /\ ready["c1"] = "CLOSED"
    /\ MapHas(devices, "d1")
    /\ Fld(MapGet(devices, "d1"), "ws") = "c1"
    /\ MapGet(devices, "d1").samplingRate = 500
    /\ out.code = 200
    /\ out.msgs = <<>>

\* C4: a heartbeat on a connection that has not registered or whose
\* deviceId has no registry entry, and any other non-register message on a
\* connection that has not registered, leaves the registry, the session
\* table and the dashboard set unchanged, broadcasts nothing, writes
\* nothing, and leaves the connection open.
C4_IgnoredMessages ==
    [][\A c \in DevConns :
          (/\ ready[c] = OPEN
           /\ connId[c] = Nil \/ ~MapHas(devices, connId[c])
           /\ \/ \E sensors \in {Nil, "none", "pzem"} : Heartbeat(c, sensors)
              \/ connId[c] = Nil /\ \E kind \in OtherKinds : DeviceOther(c, kind)) =>
              /\ devices' = devices
              /\ sessions' = sessions
              /\ webClients' = webClients
              /\ pending' = pending
              /\ out'.bcast = <<>>
              /\ out'.msgs = <<>>
              /\ ready'[c] = OPEN]_vars

\* C4 witness: c2 is open and registered as d1, d1 has no registry entry
\* (server.js deleted it when c1 closed), and the last handler was silent.
C4_Witness ==
    /\ connId["c2"] = "d1"
    /\ ready["c2"] = OPEN
    /\ ready["c1"] = "CLOSED"
    /\ ~MapHas(devices, "d1")
    /\ out = Quiet

\* C5: creating a session writes session_start, with the session's token,
\* sensors and duration, to the open connections of the listed devices and
\* to nothing else, and the session is stored and retrievable as active.
C5_SessionStartToOpenListed ==
    [][\A body \in SessionBodies, sid \in SessionIds :
          (CreateSession(body) /\ sid = Len(sessions) + 1) =>
              /\ (GetSession(sid)').code = 200
              /\ (GetSession(sid)').res.session.status = "active"
              /\ "nodes" \in DOMAIN body =>
                    /\ \A i \in 1..Len(out'.msgs) :
                          /\ out'.msgs[i].type = "session_start"
                          /\ out'.msgs[i].sessionToken =
                                (GetSession(sid)').res.session.sessionToken
                          /\ out'.msgs[i].sensors = Sensors
                          /\ out'.msgs[i].duration = Duration
                    /\ Recipients' =
                          { c \in DevConns :
                              /\ ready[c] = OPEN
                              /\ \E j \in 1..Len(body.nodes) :
                                    connId[c] = body.nodes[j] }]_vars

\* C6: a stop of a session that is already stopped leaves its status
\* stopped and its endTime as the first stop set it.
C6_StopIdempotent ==
    [][\A sid \in SessionIds :
          (/\ StopSession(sid)
           /\ MapHas(sessions, sid)
           /\ MapGet(sessions, sid).status = "stopped") =>
              /\ MapGet(sessions', sid).status = "stopped"
              /\ MapGet(sessions', sid).endTime = MapGet(sessions, sid).endTime]_vars

\* C7: a session that is stopped stays stopped, whatever route runs next.
C7_StoppedIsTerminal ==
    [][\A sid \in SessionIds :
          (MapHas(sessions, sid) /\ MapGet(sessions, sid).status = "stopped") =>
              (MapHas(sessions', sid) /\ MapGet(sessions', sid).status = "stopped")]_vars

\* C8: an actuator command for a device that registered and whose
\* connection then closed, with no register of that id since and no other
\* open connection of that id, is answered 503 and writes nothing.
C8_DisconnectedIsOffline ==
    [][\A d \in DeviceIds :
          (ActuatorCommand(d) /\ d \in closedSince /\ ~HasOpenConnection(d)) =>
              (out'.code = 503 /\ out'.msgs = <<>>)]_vars

\* C9: configure on an absent id answers 404, leaves the registry as it
\* is and writes nothing; on a present id it stores the fields of the body
\* and writes config_update to the device's open connection if and only if
\* the device has one.
C9_ConfigurePushIffOpen ==
    [][\A d \in DeviceIds, body \in Bodies, throws \in BOOLEAN :
          Configure(d, body, throws) =>
              IF ~MapHas(devices, d)
              THEN /\ out'.code = 404
                   /\ devices' = devices
                   /\ out'.msgs = <<>>
              ELSE /\ MapHas(devices', d)
                   /\ "samplingRate" \in DOMAIN body =>
                         MapGet(devices', d).samplingRate = body.samplingRate
                   /\ \A i \in 1..Len(out'.msgs) : out'.msgs[i].type = "config_update"
                   /\ Recipients' = { c \in DevConns : ready[c] = OPEN /\ connId[c] = d }]_vars

\* C10: the first message written to a dashboard is devices_list, so no
\* broadcast reaches it earlier; while the process runs, every dashboard
\* it has accepted has been written its devices_list; and the devices_list
\* written on connect has one element per registry entry, in registry
\* order, with the entry's deviceId and status.
C10_DevicesListFirst ==
    [][/\ \A w \in Dashboards : firstMsg'[w] \in {Nil, "devices_list"}
       /\ \A w \in Dashboards :
              (alive' /\ ready'[w] # "NEW") => firstMsg'[w] = "devices_list"
       /\ \A w \in Dashboards :
              DashConnect(w, FALSE) =>
                  /\ Len(out'.msgs) = 1
                  /\ out'.msgs[1].to = w
                  /\ out'.msgs[1].type = "devices_list"
                  /\ Len(out'.msgs[1].devices) = Len(devices)
                  /\ \A i \in 1..Len(devices) :
                        /\ Fld(out'.msgs[1].devices[i], "deviceId")
                              = Fld(devices[i].v, "deviceId")
                        /\ Fld(out'.msgs[1].devices[i], "status")
                              = Fld(devices[i].v, "status")]_vars

\* C10 witness: w1 connected, got devices_list first, and has now been
\* written a device_registered broadcast.
C10_Witness ==
    /\ firstMsg["w1"] = "devices_list"
    /\ out.bcast = <<"device_registered">>
    /\ \E i \in 1..Len(out.msgs) :
          out.msgs[i].to = "w1" /\ out.msgs[i].type = "device_registered"

\* A socket that has connected and whose 'close' handler has not run yet.
Attached(s) == ready[s] \in {OPEN, "CLOSING"}

\* C11: in every reachable state /health reports as connectedDevices the
\* number of deviceIds that have a connection (registered under the id and
\* not yet closed), as webClients the number of dashboards attached, and
\* in server.js as activeSessions the number of sessions.
C11_HealthCounts ==
    /\ Health.connectedDevices =
          Cardinality({ d \in DeviceIds :
                          \E c \in DevConns : Attached(c) /\ connId[c] = d })
    /\ Health.webClients = Cardinality({ w \in Dashboards : Attached(w) })
    /\ variant = "server" => Health.activeSessions = Len(sessions)

\* C12: whenever every device connection is attached and registered and no
\* two of them under the same deviceId, the device list has exactly as many
\* entries as there are connections, one per registered id: whatever the
\* interleaving of the registers with each other, with heartbeats and
\* with dashboard connects.
C12_DistinctRegistersAllListed ==
    (/\ \A c \in DevConns : Attached(c) /\ connId[c] # Nil
     /\ \A c1, c2 \in DevConns : c1 # c2 => connId[c1] # connId[c2]) =>
        /\ Len(ListDevices) = Cardinality(DevConns)
        /\ \A c \in DevConns :
              Cardinality({ i \in 1..Len(ListDevices) :
                              ListDevices[i].deviceId = connId[c] }) = 1

\* C12 witness: c1 and c2 have registered d1 and d2, c2 last, with a
\* dashboard attached that was told of it; the list has the two entries.
C12_Witness ==
    /\ connId["c1"] = "d1"
    /\ connId["c2"] = "d2"
    /\ ready["c1"] = OPEN
    /\ ready["c2"] = OPEN
    /\ ready["w1"] = OPEN
    /\ Len(ListDevices) = 2
    /\ Len(out.msgs) = 2
    /\ out.msgs[1].type = "registration_ack"
    /\ out.msgs[1].to = "c2"
    /\ out.msgs[2].type = "device_registered"

\* C13: a relay or binary_cmd message from a dashboard is written to the
\* target's connection when the target is in the registry with an OPEN
\* handle, and otherwise an error reply is written to the dashboard and the
\* registry is left as it is.
C13_DashboardRelay ==
    [][\A w \in Dashboards, kind \in DashKinds, target \in DeviceIds :
          (ready[w] = OPEN /\ DashMessage(w, kind, target)) =>
              IF MapHas(devices, target) /\ WsOpen(MapGet(devices, target))
              THEN \E i \in 1..Len(out'.msgs) :
                      /\ out'.msgs[i].to = MapGet(devices, target).ws
                      /\ out'.msgs[i].type = kind
              ELSE /\ \E i \in 1..Len(out'.msgs) :
                         out'.msgs[i].to = w /\ out'.msgs[i].type = "error"
                   /\ devices' = devices]_vars

\* C14: a register step on connection c writes registration_ack with the
\* resulting deviceId to c, and writes device_registered to exactly the
\* dashboards that are in the broadcast set and OPEN at that moment.
C14_RegisterAckAndBroadcast ==
    [][\A c \in DevConns, id \in DeviceIds \cup {Nil}, rate \in SamplingRates \cup {0},
          throws \in BOOLEAN :
          Register(c, id, rate, throws) =>
              /\ Len(out'.msgs) > 0
              /\ out'.msgs[1].type = "registration_ack"
              /\ out'.msgs[1].to = c
              /\ out'.msgs[1].deviceId = connId'[c]
              /\ { out'.msgs[i].to :
                     i \in { j \in 1..Len(out'.msgs) :
                                out'.msgs[j].type = "device_registered" } }
                    = { w \in webClients : ready[w] = OPEN }]_vars

\* C15: a heartbeat on a connection whose deviceId has a registry entry
\* stamps that entry's lastSeen, leaves it with status online whatever its
\* status was, and changes no other entry.
C15_HeartbeatForcesOnline ==
    [][\A c \in DevConns :
          (/\ ready[c] = OPEN
           /\ connId[c] # Nil
           /\ MapHas(devices, connId[c])
           /\ \E sensors \in {Nil, "none", "pzem"} : Heartbeat(c, sensors)) =>
              /\ MapHas(devices', connId[c])
              /\ Fld(MapGet(devices', connId[c]), "lastSeen") = now
              /\ Fld(MapGet(devices', connId[c]), "status") = "online"
              /\ \A k \in MapKeys(devices) \cup MapKeys(devices') :
                    k # connId[c] =>
                        /\ MapHas(devices, k)
                        /\ MapHas(devices', k)
                        /\ MapGet(devices', k) = MapGet(devices, k)]_vars

\* C16: a heartbeat on a connection whose deviceId has a registry entry is
\* re-broadcast: its handler either writes the heartbeat event to every
\* OPEN dashboard of the broadcast set, or is left suspended at the insert
\* (and broadcasts when it resumes); it writes nothing to the device and
\* leaves its connection open.
C16_HeartbeatRebroadcast ==
    [][\A c \in DevConns :
          (/\ ready[c] = OPEN
           /\ connId[c] # Nil
           /\ MapHas(devices, connId[c])
           /\ \E sensors \in {Nil, "none", "pzem"} : Heartbeat(c, sensors)) =>
              /\ \/ /\ out'.bcast = <<"heartbeat">>
                    /\ Recipients' = { w \in webClients : ready[w] = OPEN }
                 \/ pending'[c] = pending[c] + 1
              /\ c \notin Recipients'
              /\ ready'[c] = OPEN]_vars

\* C17: the handling of a heartbeat that triggers the insert (part_000, a
\* pzem004t sensor with data) completes with its broadcast in the same
\* step: the broadcast does not wait for the insert to settle.
C17_InsertDoesNotDelayBroadcast ==
    [][\A c \in DevConns :
          (/\ variant = "part000"
           /\ ready[c] = OPEN
           /\ connId[c] # Nil
           /\ MapHas(devices, connId[c])
           /\ Heartbeat(c, "pzem")) =>
              out'.bcast = <<"heartbeat">>]_vars

\* C18: webClients holds exactly the dashboard connections that have
\* connected and have neither closed nor errored; a dashboard connection that
\* closes or errors is not a member afterwards, and every broadcast message
\* goes to a member whose connection is open.
C18_BroadcastSetExact ==
    [][/\ webClients' = { w \in Dashboards : Attached(w)' }
       /\ \A w \in Dashboards : (DashClose(w) \/ DashError(w)) => w \notin webClients'
       /\ \A i \in 1..Len(out'.msgs) :
             out'.msgs[i].to \in Dashboards =>
                 /\ out'.msgs[i].to \in webClients'
                 /\ ready'[out'.msgs[i].to] = OPEN]_vars

\* C19: when connection a closes after connection b registered the same
\* deviceId d, and b is open and is the handle of d's entry, the entry of
\* d stays in the registry with status online and handle b (so commands
\* for d still reach b), and no device_disconnected is broadcast.
C19_SupersededCloseKeepsDevice ==
    [][\A a, b \in DevConns, d \in DeviceIds :
          (/\ a # b
           /\ connId[a] = d
           /\ connId[b] = d
           /\ ready[b] = OPEN
           /\ MapHas(devices, d)
           /\ Fld(MapGet(devices, d), "ws") = b
           /\ Fld(MapGet(devices, d), "status") = "online"
           /\ DeviceClose(a)) =>
              /\ MapHas(devices', d)
              /\ Fld(MapGet(devices', d), "status") = "online"
              /\ Fld(MapGet(devices', d), "ws") = b
              /\ out'.bcast = <<>>]_vars

\* C20: in every reachable state, each registry entry with status online
\* holds a handle to a device connection whose close handler has not run.
C20_OnlineHasOpenHandle ==
    \A i \in 1..Len(devices) :
        Fld(devices[i].v, "status") = "online" =>
            /\ Fld(devices[i].v, "ws") \in DevConns
            /\ Attached(Fld(devices[i].v, "ws"))

\* C21: after every step each registry entry's deviceId field equals its
\* key, and a REST register or configure request on a present id leaves the
\* deviceId, status and connection handle of the entry as they were.
C21_RestKeepsIdentity ==
    [][/\ \A i \in 1..Len(devices') :
             Fld(devices'[i].v, "deviceId") = devices'[i].k
       /\ \A d \in DeviceIds, body \in Bodies :
             (/\ MapHas(devices, d)
              /\ \/ RestRegister(d, body)
                 \/ \E throws \in BOOLEAN : Configure(d, body, throws)) =>
                 \A f \in {"deviceId", "status", "ws"} :
                     Fld(MapGet(devices', d), f) = Fld(MapGet(devices, d), f)]_vars

\* C22: no heartbeat event is written to a dashboard for a deviceId whose
\* connection has closed with no register of that id since, and no
\* heartbeat of a connection is broadcast while an earlier heartbeat of the
\* same connection still waits to be broadcast.
C22_BroadcastsInArrivalOrder ==
    [][/\ \A i \in 1..Len(out'.msgs) :
             out'.msgs[i].type = "heartbeat" =>
                 Fld(out'.msgs[i], "deviceId") \notin closedSince'
       /\ \A c \in DevConns :
             (/\ pending[c] > 0
              /\ HeartbeatKnown(c)
              /\ Heartbeat(c, "none")) =>
                 out'.bcast # <<"heartbeat">>]_vars

====
